---- MODULE Spec2Model ----
(***************************************************************************)
(* WorkflowRunsTable.tsx of the github-actions plugin: the container       *)
(* WorkflowRunsTable, the presentation view WorkflowRunsTableView and the  *)
(* column definitions generatedColumns, under the state changes of the two *)
(* hooks the container reads (useProjectName, useWorkflowRuns) and the     *)
(* user's clicks on the rendered table.                                    *)
(*                                                                         *)
(* Text that the code takes apart or puts together (the project name, the  *)
(* link of the empty state) is a sequence of one-character strings.  An    *)
(* optional value is <<>> (undefined) or <<v>>.                            *)
(***************************************************************************)
EXTENDS Integers, Sequences, FiniteSets, TLC

VARIABLES
    branch,        \* the `branch` prop of the container
    nameHook,      \* what useProjectName(entity) returns: {value, loading}
    fetcher,       \* the first element of what useWorkflowRuns returns
    ui,            \* the last render: arguments given to useWorkflowRuns, element returned
    event,         \* the user's last action on the rendered element
    invoked,       \* the callbacks that action invoked, in order
    reloadClicks,  \* clicks on the toolbar reload action so far
    retryCalls     \* invocations of retry so far

vars == <<branch, nameHook, fetcher, ui, event, invoked, reloadClicks, retryCalls>>

----------------------------------------------------------------------------
(* Bounds *)

MaxNameLen == 3
MaxRuns == 2
MaxPage == 1
MaxTotal == 1
MaxClicks == 2

----------------------------------------------------------------------------
(* Optional values *)

Undefined == <<>>
Some(v) == <<v>>
IsDefined(o) == Len(o) = 1
Val(o) == o[1]

----------------------------------------------------------------------------
(* Text *)

Alphabet == {"a", "/"}
Names == UNION {[1..n -> Alphabet] : n \in 0..MaxNameLen}
OptNames == {Undefined} \cup {Some(n) : n \in Names}

\* String.prototype.split with a one-character separator
RECURSIVE SplitAcc(_, _, _, _)
SplitAcc(s, sep, i, cur) ==
    IF i > Len(s) THEN <<cur>>
    ELSE IF s[i] = sep THEN <<cur>> \o SplitAcc(s, sep, i + 1, <<>>)
    ELSE SplitAcc(s, sep, i + 1, Append(cur, s[i]))

split(s, sep) == SplitAcc(s, sep, 1, <<>>)

\* array destructuring: the k-th element, undefined when the array is shorter
At(parts, k) == IF k <= Len(parts) THEN Some(parts[k]) ELSE Undefined

\* ${v} in a template literal
UndefinedText == <<"u", "n", "d", "e", "f", "i", "n", "e", "d">>
TemplateValue(v) == IF IsDefined(v) THEN Val(v) ELSE UndefinedText

GithubPrefix ==
    <<"h", "t", "t", "p", "s", ":", "/", "/",
      "g", "i", "t", "h", "u", "b", ".", "c", "o", "m", "/">>
ActionsNewSuffix == <<"/", "a", "c", "t", "i", "o", "n", "s", "/", "n", "e", "w">>

----------------------------------------------------------------------------
(* The data: WorkflowRun *)

Ids == {ToString(i) : i \in 1..MaxRuns}

\* a callback is named by the function it is and, for a row's callback, the run it is bound to
Callback(fn, run) == [fn |-> fn, run |-> run]

\* one invocation of a callback, with the argument handed to it (undefined: none)
Invoke(cb, arg) == [fn |-> cb.fn, run |-> cb.run, arg |-> arg]

WorkflowRun(id) ==
    [id |-> id,
     message |-> "Update workflow",
     source |-> [branchName |-> "main", commit |-> [hash |-> "c0ffee", url |-> "commit-url"]],
     status |-> "completed",
     conclusion |-> "success",
     onReRunClick |-> Callback("onReRunClick", id)]

\* the pages of runs the fetcher may hold: ids are unique within a page
IdLists ==
    {l \in UNION {[1..n -> Ids] : n \in 0..MaxRuns} :
        \A i, j \in 1..Len(l) : i # j => l[i] # l[j]}
RunLists == {[k \in 1..Len(l) |-> WorkflowRun(l[k])] : l \in IdLists}
OptRunLists == {Undefined} \cup {Some(r) : r \in RunLists}

----------------------------------------------------------------------------
(* The collaborators *)

\* the second element of what useWorkflowRuns returns
retry == Callback("retry", "")
setPage == Callback("setPage", "")
setPageSize == Callback("setPageSize", "")

\* the route of one run's detail page, and react-router's generatePath
buildRouteRefPath == <<"workflow-run", ":id">>
generatePath(path, params) ==
    [k \in 1..Len(path) |-> IF path[k] = ":id" THEN params.id ELSE path[k]]

----------------------------------------------------------------------------
(* generatedColumns: what each column renders of a row *)

\* the link built from the message instead of the id
MessageCellByMessage(row) ==
    [to |-> generatePath(buildRouteRefPath, [id |-> row.message]), text |-> row.message]

MessageCell(row) ==
    [to |-> generatePath(buildRouteRefPath, [id |-> row.id]), text |-> row.message]

SourceCell(row) ==
    [branchName |-> row.source.branchName, hash |-> row.source.commit.hash]

StatusCell(row) == [status |-> row.status, conclusion |-> row.conclusion]

\* the row's button wired to the toolbar's reload
ActionsCellReload(row) == [tooltip |-> "Rerun workflow", onClick |-> retry]

ActionsCell(row) == [tooltip |-> "Rerun workflow", onClick |-> row.onReRunClick]

generatedColumns(row) ==
    [ID |-> row.id,
     Message |-> MessageCell(row),
     Source |-> SourceCell(row),
     Status |-> StatusCell(row),
     Actions |-> ActionsCell(row)]

\* the table widget lays out one row per element of data, each cell by its column
Table(props) ==
    [props EXCEPT !.rows = [k \in 1..Len(props.data) |-> generatedColumns(props.data[k])]]

----------------------------------------------------------------------------
(* WorkflowRunsTableView *)

\* data={runs ?? []}
ViewData(runs) == IF IsDefined(runs) THEN Val(runs) ELSE <<>>

\* onClick: () => retry, which names the callback and never calls it
ReloadOnClickUncalled(retryProp) == <<>>

\* onClick: () => retry()
ReloadOnClick(retryProp) == <<Invoke(retryProp, Undefined)>>

WorkflowRunsTableView(props) ==
    Table([type |-> "Table",
           isLoading |-> props.loading,
           options |-> [paging |-> TRUE, pageSize |-> props.pageSize, padding |-> "dense"],
           totalCount |-> props.total,
           page |-> props.page,
           actions |-> <<[tooltip |-> "Reload workflow runs",
                          isFreeAction |-> TRUE,
                          onClick |-> ReloadOnClick(props.retry)]>>,
           data |-> ViewData(props.runs),
           onChangePage |-> props.onChangePage,
           onChangeRowsPerPage |-> props.onChangePageSize,
           title |-> props.projectName,
           rows |-> <<>>])

----------------------------------------------------------------------------
(* WorkflowRunsTable *)

\* (projectName ?? '').split('/')
OwnerRepoEmptyDefault(projectName) ==
    LET parts == split(IF IsDefined(projectName) THEN Val(projectName) ELSE <<>>, "/")
    IN  [owner |-> At(parts, 1), repo |-> At(parts, 2)]

\* const [owner, repo] = (projectName ?? '/').split('/')
OwnerRepo(projectName) ==
    LET parts == split(IF IsDefined(projectName) THEN Val(projectName) ELSE <<"/">>, "/")
    IN  [owner |-> At(parts, 1), repo |-> At(parts, 2)]

\* !runs?.length, which also takes the empty list for no data
NotRunsOrEmpty(runs) == ~IsDefined(runs) \/ Len(Val(runs)) = 0

\* the view rendered always, its `runs ?? []` left to deal with undefined
NotRunsNever(runs) == FALSE

\* !runs
NotRuns(runs) == ~IsDefined(runs)

\* ${projectName ?? ''}
CreateWorkflowHrefOrEmpty(projectName) ==
    GithubPrefix \o (IF IsDefined(projectName) THEN Val(projectName) ELSE <<>>)
        \o ActionsNewSuffix

\* href={`https://github.com/${projectName}/actions/new`}
CreateWorkflowHref(projectName) ==
    GithubPrefix \o TemplateValue(projectName) \o ActionsNewSuffix

\* the spread's loading, the resolver's flag dropped
ViewLoadingSpreadOnly(loading, tableLoading) == tableLoading

\* loading={loading || tableProps.loading}
ViewLoading(loading, tableLoading) == loading \/ tableLoading

\* { runs, ...tableProps }
TableProps(state) ==
    [loading |-> state.loading,
     page |-> state.page,
     pageSize |-> state.pageSize,
     total |-> state.total,
     projectName |-> state.projectName]

\* the two pagination handlers crossed
ViewPropsCrossed(tableProps, runs, name) ==
    [projectName |-> tableProps.projectName,
     page |-> tableProps.page,
     pageSize |-> tableProps.pageSize,
     total |-> tableProps.total,
     runs |-> runs,
     loading |-> name.loading \/ tableProps.loading,
     retry |-> retry,
     onChangePageSize |-> setPage,
     onChangePage |-> setPageSize]

\* projectName={projectName} added after the spread: the resolver's value
ViewPropsResolvedName(tableProps, runs, name) ==
    [projectName |-> name.value,
     page |-> tableProps.page,
     pageSize |-> tableProps.pageSize,
     total |-> tableProps.total,
     runs |-> runs,
     loading |-> name.loading \/ tableProps.loading,
     retry |-> retry,
     onChangePageSize |-> setPageSize,
     onChangePage |-> setPage]

\* the props of <WorkflowRunsTableView>: the spread first, then the named ones;
\* name is what useProjectName returned, of which only loading is used
ViewProps(tableProps, runs, name) ==
    [projectName |-> tableProps.projectName,
     page |-> tableProps.page,
     pageSize |-> tableProps.pageSize,
     total |-> tableProps.total,
     runs |-> runs,
     loading |-> ViewLoading(name.loading, tableProps.loading),
     retry |-> retry,
     onChangePageSize |-> setPageSize,
     onChangePage |-> setPage]

EmptyState(projectName) ==
    [type |-> "EmptyState",
     missing |-> "data",
     title |-> "No Workflow Data",
     action |-> [text |-> "Create new Workflow", href |-> CreateWorkflowHref(projectName)]]

\* one render of the container: the arguments of useWorkflowRuns and the element returned
WorkflowRunsTable(name, state, branchProp) ==
    LET or == OwnerRepo(name.value)
    IN  [fetch |-> [owner |-> or.owner, repo |-> or.repo, branch |-> branchProp],
         element |-> IF NotRuns(state.runs)
                     THEN EmptyState(name.value)
                     ELSE WorkflowRunsTableView(
                              ViewProps(TableProps(state), state.runs, name))]

----------------------------------------------------------------------------
(* The state machine *)

PageSizes == {5, 10}
Branches == {Undefined, Some("main")}

\* the names the resolver returns while the user acts on the table
FewNames == {Undefined, Some(<<"a", "/", "a">>)}

\* the project names the fetcher's state carries (Props.projectName: string)
FetcherNames == {Some(<<"/">>), Some(<<"a", "/", "a">>)}

NoEvent == [kind |-> "none", row |-> 0, arg |-> Undefined]
UserEvent(kind, row, arg) == [kind |-> kind, row |-> row, arg |-> arg]

RECURSIVE CountFn(_, _)
CountFn(calls, fn) ==
    IF Len(calls) = 0 THEN 0
    ELSE (IF Head(calls).fn = fn THEN 1 ELSE 0) + CountFn(Tail(calls), fn)

\* the handlers an element offers the user are the ones it was rendered with
Offers(element, handler) == handler \in DOMAIN element

\* the first render: both lookups are in flight and nothing has been fetched
Mounted(projectNames) ==
    /\ nameHook = [value |-> Undefined, loading |-> TRUE]
    /\ \E s \in PageSizes, pn \in projectNames :
           fetcher = [runs |-> Undefined, loading |-> TRUE, page |-> 0,
                      pageSize |-> s, total |-> 0, projectName |-> pn]
    /\ ui = WorkflowRunsTable(nameHook, fetcher, branch)
    /\ event = NoEvent
    /\ invoked = <<>>
    /\ reloadClicks = 0
    /\ retryCalls = 0

\* mounted without a branch filter
Init ==
    /\ branch = Undefined
    /\ Mounted({Some(<<"a", "/", "a">>)})

\* mounted with or without one
InitNames ==
    /\ branch \in Branches
    /\ Mounted(FetcherNames)

\* a hook's state changes and the container renders again
HookStep(n, f) ==
    /\ nameHook' = n
    /\ fetcher' = f
    /\ ui' = WorkflowRunsTable(n, f, branch)
    /\ event' = NoEvent
    /\ invoked' = <<>>
    /\ UNCHANGED <<branch, reloadClicks, retryCalls>>

(* useProjectName *)
ProjectNameResolved(values) ==
    \E v \in values : HookStep([nameHook EXCEPT !.value = v], fetcher)

ProjectNameLoading ==
    \E b \in BOOLEAN : HookStep([nameHook EXCEPT !.loading = b], fetcher)

(* useWorkflowRuns *)
RunsFetched ==
    \E r \in OptRunLists : HookStep(nameHook, [fetcher EXCEPT !.runs = r])

RunsLoading ==
    \E b \in BOOLEAN : HookStep(nameHook, [fetcher EXCEPT !.loading = b])

PageSet ==
    \E p \in 0..MaxPage : HookStep(nameHook, [fetcher EXCEPT !.page = p])

PageSizeSet ==
    \E s \in PageSizes : HookStep(nameHook, [fetcher EXCEPT !.pageSize = s])

TotalSet ==
    \E t \in 0..MaxTotal : HookStep(nameHook, [fetcher EXCEPT !.total = t])

FetcherProjectName ==
    \E pn \in FetcherNames : HookStep(nameHook, [fetcher EXCEPT !.projectName = pn])

(* the user *)
UserStep(e, calls) ==
    /\ event' = e
    /\ invoked' = calls
    /\ retryCalls' = retryCalls + CountFn(calls, "retry")
    /\ UNCHANGED <<branch, nameHook, fetcher, ui>>

ClickReload ==
    /\ Offers(ui.element, "actions")
    /\ reloadClicks < MaxClicks
    /\ reloadClicks' = reloadClicks + 1
    /\ UserStep(UserEvent("reload", 0, Undefined), ui.element.actions[1].onClick)

ClickRerun ==
    /\ Offers(ui.element, "rows")
    /\ \E i \in 1..Len(ui.element.rows) :
           UserStep(UserEvent("rerun", i, Undefined),
                    <<Invoke(ui.element.rows[i].Actions.onClick, Undefined)>>)
    /\ UNCHANGED reloadClicks

ChangePage ==
    /\ Offers(ui.element, "onChangePage")
    /\ \E p \in 0..MaxPage :
           UserStep(UserEvent("page", 0, Some(p)),
                    <<Invoke(ui.element.onChangePage, Some(p))>>)
    /\ UNCHANGED reloadClicks

ChangeRowsPerPage ==
    /\ Offers(ui.element, "onChangeRowsPerPage")
    /\ \E s \in PageSizes :
           UserStep(UserEvent("pageSize", 0, Some(s)),
                    <<Invoke(ui.element.onChangeRowsPerPage, Some(s))>>)
    /\ UNCHANGED reloadClicks

\* the user acts on the table while the fetcher pages and fetches
Next ==
    \/ ProjectNameResolved(FewNames)
    \/ ProjectNameLoading
    \/ RunsFetched
    \/ RunsLoading
    \/ PageSet
    \/ PageSizeSet
    \/ TotalSet
    \/ ClickReload
    \/ ClickRerun
    \/ ChangePage
    \/ ChangeRowsPerPage

Spec == Init /\ [][Next]_vars

\* the renders alone, over every project name
NextNames ==
    \/ ProjectNameResolved(OptNames)
    \/ ProjectNameLoading
    \/ RunsFetched
    \/ RunsLoading
    \/ FetcherProjectName

SpecNames == InitNames /\ [][NextNames]_vars

----------------------------------------------------------------------------
(* Properties *)

Runs == Val(fetcher.runs)
IsTable == ui.element.type = "Table"
IsEmptyState == ui.element.type = "EmptyState"
SlashFree == {n \in Names : \A k \in 1..Len(n) : n[k] # "/"}

\* C1: the container renders the empty-state panel exactly when the fetcher's
\* runs is undefined; for any present runs, the empty list included, it renders
\* the table, with one row per run.
C1_EmptyStateIffRunsUndefined ==
    /\ IsEmptyState <=> ~IsDefined(fetcher.runs)
    /\ IsDefined(fetcher.runs) =>
           /\ IsTable
           /\ Len(ui.element.rows) = Len(Runs)

C1_Witness ==
    /\ IsDefined(fetcher.runs)
    /\ Len(Runs) = 0
    /\ IsTable
    /\ Len(ui.element.rows) = 0
    /\ nameHook.loading
    /\ fetcher.loading

\* C2: whenever the table is rendered, the isLoading flag handed to the table
\* widget is (project-name resolver loading) OR (run-fetcher loading).
C2_IsLoadingIsEitherLoading ==
    IsTable => (ui.element.isLoading <=> (nameHook.loading \/ fetcher.loading))

C2_Witness ==
    /\ IsTable
    /\ nameHook.loading
    /\ ~fetcher.loading
    /\ ui.element.isLoading

\* C3: on every render the fetcher is given the owner and repo split from the
\* resolved name: "<owner>/<repo>" gives owner and repo, an undefined name gives
\* "" and ""; the branch prop is passed unchanged.
C3_FetcherGetsOwnerRepoBranch ==
    /\ ui.fetch.branch = branch
    /\ ~IsDefined(nameHook.value) =>
           /\ ui.fetch.owner = Some(<<>>)
           /\ ui.fetch.repo = Some(<<>>)
    /\ \A o, r \in SlashFree :
           nameHook.value = Some(o \o <<"/">> \o r) =>
               /\ ui.fetch.owner = Some(o)
               /\ ui.fetch.repo = Some(r)

C3_Witness ==
    /\ nameHook.value = Some(<<"a", "/", "a">>)
    /\ ui.fetch.owner = Some(<<"a">>)
    /\ ui.fetch.repo = Some(<<"a">>)
    /\ IsDefined(branch)
    /\ ui.fetch.branch = branch

\* C4: each click on the toolbar reload action invokes retry exactly once and
\* nothing else, so k clicks make exactly k retry invocations.
C4_ReloadInvokesRetryOnce ==
    /\ [](retryCalls = reloadClicks)
    /\ [][reloadClicks' # reloadClicks =>
              /\ reloadClicks' = reloadClicks + 1
              /\ event'.kind = "reload"
              /\ invoked' = <<Invoke(retry, Undefined)>>]_vars

C4_Witness ==
    /\ reloadClicks = MaxClicks
    /\ retryCalls = MaxClicks
    /\ event.kind = "reload"
    /\ invoked = <<Invoke(retry, Undefined)>>
    /\ fetcher.page = MaxPage
    /\ Len(Runs) = MaxRuns

\* C5: every rendered row has a rerun button, and a click on row i's button
\* invokes runs[i].onReRunClick once and no other callback.
C5_RerunInvokesThatRowsCallback ==
    /\ [](IsTable => \A i \in 1..Len(Runs) : Offers(ui.element.rows[i].Actions, "onClick"))
    /\ [][event'.kind = "rerun" =>
              /\ IsDefined(fetcher.runs)
              /\ event'.row \in 1..Len(Runs)
              /\ invoked' = <<Invoke(Runs[event'.row].onReRunClick, Undefined)>>
              /\ retryCalls' = retryCalls]_vars

C5_Witness ==
    /\ event.kind = "rerun"
    /\ event.row = 2
    /\ Len(Runs) = 2
    /\ Runs[1].onReRunClick # Runs[2].onReRunClick
    /\ invoked = <<Invoke(Runs[2].onReRunClick, Undefined)>>

\* C6: the table widget receives the fetcher's page, pageSize and total
\* unchanged; a page change to p invokes setPage(p) and a page-size change to s
\* invokes setPageSize(s), nothing else, and the fetcher's state is left as it is.
C6_PaginationPassThrough ==
    /\ [](IsTable =>
              /\ ui.element.page = fetcher.page
              /\ ui.element.options.pageSize = fetcher.pageSize
              /\ ui.element.totalCount = fetcher.total)
    /\ [][event'.kind \in {"page", "pageSize"} =>
              /\ event'.kind = "page" => invoked' = <<Invoke(setPage, event'.arg)>>
              /\ event'.kind = "pageSize" => invoked' = <<Invoke(setPageSize, event'.arg)>>
              /\ retryCalls' = retryCalls
              /\ fetcher' = fetcher]_vars

C6_Witness ==
    /\ event.kind = "page"
    /\ event.arg = Some(1)
    /\ fetcher.page = 0
    /\ ui.element.page = 0
    /\ invoked = <<Invoke(setPage, Some(1))>>

\* C7: the data handed to the table is exactly the fetcher's current runs, in
\* order, and row i's Message cell links to a route that contains runs[i].id.
C7_RowsAreCurrentRuns ==
    IsTable =>
        /\ ui.element.data = Runs
        /\ Len(ui.element.rows) = Len(Runs)
        /\ \A i \in 1..Len(Runs) :
               /\ ui.element.rows[i].ID = Runs[i].id
               /\ ui.element.rows[i].Message.text = Runs[i].message
               /\ \E k \in 1..Len(ui.element.rows[i].Message.to) :
                      ui.element.rows[i].Message.to[k] = Runs[i].id

C7_Witness ==
    /\ IsTable
    /\ Len(Runs) = 2
    /\ Runs[1].id = "2"
    /\ ui.element.rows[1].Message.to = <<"workflow-run", "2">>
    /\ ui.element.rows[2].Message.to = <<"workflow-run", "1">>

\* C8 as claimed: whenever the table is rendered, the projectName prop of the
\* view (the table's title) is the value the project-name resolver returned.
C8_TitleIsResolvedName ==
    IsTable => ui.element.title = nameHook.value

\* C8, amended: whenever the table is rendered, the projectName prop of the
\* view is the projectName carried by the run-fetcher's state, whatever the
\* project-name resolver returned.
C8_TitleIsFetcherProjectName ==
    IsTable => ui.element.title = fetcher.projectName

C8_Witness ==
    /\ IsTable
    /\ nameHook.value = Some(<<"a", "/", "a">>)
    /\ ~nameHook.loading
    /\ fetcher.projectName = Some(<<"/">>)
    /\ ui.element.title = Some(<<"/">>)

\* C9 as claimed: in the empty state the link's href is "https://github.com/" +
\* owner + "/" + repo + "/actions/new" for the owner and repo given to the
\* fetcher in that render, both defined, whatever the resolver returned.
C9_HrefIsFetchedRepository ==
    IsEmptyState =>
        /\ IsDefined(ui.fetch.owner)
        /\ IsDefined(ui.fetch.repo)
        /\ ui.element.action.href =
               GithubPrefix \o Val(ui.fetch.owner) \o <<"/">> \o Val(ui.fetch.repo)
                   \o ActionsNewSuffix

\* C9, amended: in the empty state the href is "https://github.com/" + the
\* resolved name, unsplit, + "/actions/new", with the text "undefined" for an
\* absent name; it is the owner-and-repo form of the claim, with owner and repo
\* both defined, exactly when the name is present and has exactly one "/".
C9_HrefIsResolvedNameUnsplit ==
    IsEmptyState =>
        /\ IsDefined(nameHook.value) =>
               ui.element.action.href =
                   GithubPrefix \o Val(nameHook.value) \o ActionsNewSuffix
        /\ ~IsDefined(nameHook.value) =>
               ui.element.action.href = GithubPrefix \o UndefinedText \o ActionsNewSuffix
        /\ C9_HrefIsFetchedRepository <=>
               /\ IsDefined(nameHook.value)
               /\ Cardinality({k \in 1..Len(Val(nameHook.value)) :
                                   Val(nameHook.value)[k] = "/"}) = 1

C9_Witness ==
    /\ IsEmptyState
    /\ nameHook.value = Some(<<"a", "/", "a">>)
    /\ ui.fetch.owner = Some(<<"a">>)
    /\ ui.fetch.repo = Some(<<"a">>)
    /\ ui.element.action.href =
           GithubPrefix \o <<"a", "/", "a">> \o ActionsNewSuffix

\* C10: while runs is undefined no step invokes retry, setPage, setPageSize or
\* an onReRunClick: the element offers no handler and no user event happens.
C10_EmptyStateOffersNoCallback ==
    /\ [](~IsDefined(fetcher.runs) =>
              /\ ~Offers(ui.element, "actions")
              /\ ~Offers(ui.element, "rows")
              /\ ~Offers(ui.element, "onChangePage")
              /\ ~Offers(ui.element, "onChangeRowsPerPage"))
    /\ [][~IsDefined(fetcher.runs) =>
              /\ event'.kind = "none"
              /\ invoked' = <<>>
              /\ retryCalls' = retryCalls]_vars

C10_Witness ==
    /\ IsEmptyState
    /\ ~fetcher.loading
    /\ ~nameHook.loading
    /\ reloadClicks = 1
    /\ retryCalls = 1

====
